---- MODULE Spec2Model ----
(***************************************************************************)
(* Provenance service: the originating-party (EDP) and receiving-party     *)
(* (CAP) record assembly of app/provenance.py, the endpoints of main.py,   *)
(* the signer resolution of app/keystores.py, and the chain engine         *)
(* (Record: add_step, sign, encoded, verify, find_step, decoded) they use. *)
(***************************************************************************)
EXTENDS Integers, Sequences, FiniteSets, TLC

\* ------------------------------------------------------------------ bounds
\* number of HTTP exchanges recorded at the boundary
MaxExchanges == 2
\* number of sign/edp requests in flight at once
MaxInFlight == 2
\* days a request's from_date / to_date range over
MaxDay == 2
\* number of receiving-party signing hops layered on one chain
MaxHops == 2

VARIABLES
    signer,      \* main.context["signer"]: the process-wide Signer
    provider,    \* main.context["certificate_provider"]: the trust anchor
    wire,        \* the encoded artifact in transit between parties (<<>> or <<a>>)
    sealed,      \* the artifact as the last seal produced it (<<>> or <<a>>)
    cap,         \* the sign/cap request being served: position and locals
    resp,        \* the last response an endpoint gave
    hops,        \* number of completed receiving-party hops
    environ,     \* os.environ / app.conf at process start
    world,       \* what lies behind the locators: KMS, secret store, files
    gs,          \* get_signer: position, tiers tried, log, outcome
    eng,         \* a chain under construction and the last engine call on it
    http,        \* the HTTP exchanges at the boundary of sign/edp and sign/cap
    boot,        \* lifespan: position, failure, how often context was filled
    edp,         \* the sign/edp requests in flight: position and locals of each
    val          \* a request body at the models: position, outcome, first step

wfVars == <<signer, provider, wire, sealed, cap, resp, hops>>
gsVars == <<environ, world, gs>>

othVars == <<http, boot, edp, val>>

vars == <<wfVars, gsVars, eng, othVars>>

\* ------------------------------------------------------- configuration
SCHEME_URL == "https://registry.core.sandbox.trust.ib1.org/scheme/perseus"
TRUST_FRAMEWORK_URL == "https://registry.core.sandbox.trust.ib1.org/trust-framework"

LicenceEnergy == "SCHEME/licence/energy-consumption-data/2024-12-05"
StandardEnergy == "SCHEME/standard/energy-consumption-data/2024-12-05"
RoleCap == "SCHEME/role/carbon-accounting-provider"

Members == {"member-1", "member-2"}
Urls == {"https://svc-1", "https://svc-2"}
Roots == {"root-1", "root-2"}

\* ------------------------------------------------------------ datetimes
\* A datetime is [day, micro, aware]: the day of 2024-01, whether it carries
\* microseconds, whether it carries a UTC offset.
DayChars(d) == <<"2", "0", "2", "4", "-", "0", "1", "-", "0">> \o <<ToString(d)>>
TimeChars == <<"0", "0", ":", "0", "0", ":", "0", "0">>
MicroChars == <<".", "0", "0", "0", "0", "0", "1">>
OffsetChars == <<"+", "0", "0", ":", "0", "0">>

\* datetime.isoformat(): YYYY-MM-DDTHH:MM:SS[.ffffff][+HH:MM]
isoformat(dt) ==
    DayChars(dt.day) \o <<"T">> \o TimeChars
        \o (IF dt.micro THEN MicroChars ELSE <<>>)
        \o (IF dt.aware THEN OffsetChars ELSE <<>>)

\* s[0:-7]
DropLast7(s) == IF Len(s) <= 7 THEN <<>> ELSE SubSeq(s, 1, Len(s) - 7)

\* f"{dt.isoformat()[0:-7]}Z"
PermissionTimestamp(dt) == DropLast7(isoformat(dt)) \o <<"Z">>

\* f"{d.isoformat()}Z"
DateZ(dt) == isoformat(dt) \o <<"Z">>

Day(d) == [day |-> d, micro |-> FALSE, aware |-> FALSE]
PermissionInstant(d) == [day |-> d, micro |-> TRUE, aware |-> FALSE]

\* ------------------------------------------------------------ chain engine
\* Record of ib1.provenance as app/provenance.py and main.py use it.  The
\* in-memory Record is [trust_framework, steps, signatures, added, verified]:
\* steps and signatures come from the artifact it was opened from, added is the
\* not-yet-sealed tail.  The encoded artifact is the dict with the keys
\* "ib1:provenance", "steps" and "signatures".

\* Record(trust_framework): a fresh, empty chain
NewRecord(tf) ==
    [trust_framework |-> tf, steps |-> <<>>, signatures |-> <<>>,
     added |-> <<>>, verified |-> FALSE]

\* Record(trust_framework, artifact): a chain reconstructed from an artifact
OpenRecord(tf, artifact) ==
    IF artifact["ib1:provenance"] # tf
    THEN [err |-> "TrustFrameworkMismatch", rec |-> NewRecord(tf)]
    ELSE [err |-> "none",
          rec |-> [trust_framework |-> tf, steps |-> artifact.steps,
                   signatures |-> artifact.signatures,
                   added |-> <<>>, verified |-> FALSE]]

AllSteps(rec) == rec.steps \o rec.added

StepIds(steps) == {steps[i].id : i \in 1..Len(steps)}

SetMax(S) == IF S = {} THEN 0 ELSE CHOOSE m \in S : \A x \in S : x <= m

\* ids counted from one again for the steps of each hop
FreshIdPerHop(rec) == Len(rec.added) + 1

\* the id add_step gives the next step: fresh for the chain
FreshId(rec) == SetMax(StepIds(AllSteps(rec))) + 1

SeqToSet(q) == {q[i] : i \in 1..Len(q)}

\* the ids a step payload refers to, by its declared reference fields
References(p) ==
    (IF "permissions" \in DOMAIN p THEN SeqToSet(p.permissions) ELSE {})
    \cup (IF "inputs" \in DOMAIN p THEN SeqToSet(p.inputs) ELSE {})
    \cup (IF "of" \in DOMAIN p THEN {p.of} ELSE {})
    \cup (IF "transfer" \in DOMAIN p THEN {p.transfer} ELSE {})

\* add_step with the dangling references silently dropped instead of refused
add_step_dropping(rec, payload) ==
    [err |-> "none", id |-> FreshId(rec),
     rec |-> [rec EXCEPT !.added =
                Append(@, ("id" :> FreshId(rec)) @@
                    [k \in DOMAIN payload |->
                        IF k \in {"permissions", "inputs"}
                        THEN SelectSeq(payload[k],
                                LAMBDA r : r \in StepIds(AllSteps(rec)))
                        ELSE payload[k]])]]

\* Record.add_step(payload): checks every reference against the steps so far,
\* assigns a fresh id, appends to the tail, returns the id
add_step(rec, payload) ==
    IF ~(References(payload) \subseteq StepIds(AllSteps(rec)))
    THEN [err |-> "DanglingReferenceError", id |-> 0, rec |-> rec]
    ELSE [err |-> "none", id |-> FreshId(rec),
          rec |-> [rec EXCEPT !.added =
                     Append(@, ("id" :> FreshId(rec)) @@ payload)]]

\* what one seal covers: the trust framework and a prefix of the steps
SignedContent(tf, steps, upto) == [tf |-> tf, steps |-> SubSeq(steps, 1, upto)]

\* sign with the envelope over the steps appended since the last seal only
sign_tail_only(rec, s) ==
    [trust_framework |-> rec.trust_framework,
     steps |-> AllSteps(rec),
     signatures |-> Append(rec.signatures,
        [member |-> s.member, roles |-> s.roles, root |-> s.root,
         upto |-> Len(AllSteps(rec)),
         over |-> [tf |-> rec.trust_framework, steps |-> rec.added]]),
     added |-> <<>>,
     verified |-> rec.verified]

\* Record.sign(signer): the sealed Record, with one more signature envelope
\* over the entire steps sequence, carrying the signer's certificate
sign(rec, s) ==
    [trust_framework |-> rec.trust_framework,
     steps |-> AllSteps(rec),
     signatures |-> Append(rec.signatures,
        [member |-> s.member, roles |-> s.roles, root |-> s.root,
         upto |-> Len(AllSteps(rec)),
         over |-> SignedContent(rec.trust_framework, AllSteps(rec),
                                Len(AllSteps(rec)))]),
     added |-> <<>>,
     verified |-> rec.verified]

\* Record.encoded(): the artifact of a sealed Record
encoded(rec) ==
    ("ib1:provenance" :> rec.trust_framework)
        @@ [steps |-> rec.steps, signatures |-> rec.signatures]

EnvelopeValid(rec, e) ==
    /\ e.upto <= Len(rec.steps)
    /\ e.over = SignedContent(rec.trust_framework, rec.steps, e.upto)

\* Record.verify(certificate_provider): every envelope against the steps it
\* covers and against the trust anchor
verify(rec, cp) ==
    IF \/ rec.signatures = <<>>
       \/ rec.signatures[Len(rec.signatures)].upto # Len(rec.steps)
       \/ \E i \in 1..Len(rec.signatures) : ~EnvelopeValid(rec, rec.signatures[i])
    THEN "SignatureInvalidError"
    ELSE IF \E i \in 1..Len(rec.signatures) : rec.signatures[i].root # cp.root
    THEN "TrustChainError"
    ELSE "none"

\* the envelope of the hop that added step i: the first one covering it
EnvelopeOf(rec, i) ==
    LET covering == {j \in 1..Len(rec.signatures) : rec.signatures[j].upto >= i}
    IN  IF covering = {} THEN <<>>
        ELSE <<rec.signatures[CHOOSE j \in covering : \A k \in covering : j <= k]>>

NestedKeys == {"parameters", "allows", "perseus:scheme", "perseus:assurance"}

\* structural match of one step against the criteria: every key of the
\* criteria is present with an equal value, nested dicts by subset
StepMatches(rec, i, crit) ==
    LET step == AllSteps(rec)[i] IN
    \A k \in DOMAIN crit :
        IF k = "_signature"
        THEN /\ EnvelopeOf(rec, i) # <<>>
             /\ EnvelopeOf(rec, i)[1].member = crit[k].signed.member
             /\ EnvelopeOf(rec, i)[1].roles = crit[k].signed.roles
        ELSE /\ k \in DOMAIN step
             /\ IF k \in NestedKeys
                THEN \A kk \in DOMAIN crit[k] :
                        /\ kk \in DOMAIN step[k]
                        /\ step[k][kk] = crit[k][kk]
                ELSE step[k] = crit[k]

RECURSIVE FindFrom(_, _, _)
FindFrom(rec, crit, i) ==
    IF i > Len(AllSteps(rec)) THEN 0
    ELSE IF StepMatches(rec, i, crit) THEN i
    ELSE FindFrom(rec, crit, i + 1)

\* find_step scanning from the end of the chain
find_step_last(rec, crit) ==
    LET hits == {i \in 1..Len(AllSteps(rec)) : StepMatches(rec, i, crit)} IN
    IF hits = {} THEN [err |-> "StepNotFoundError", index |-> 0]
    ELSE [err |-> "none", index |-> SetMax(hits)]

\* Record.find_step(criteria): the first matching step in chain order
find_step(rec, crit) ==
    LET i == FindFrom(rec, crit, 1) IN
    IF i = 0 THEN [err |-> "StepNotFoundError", index |-> 0]
    ELSE [err |-> "none", index |-> i]

\* Record.decoded(): the chain content of the record
decoded(rec) ==
    [trust_framework |-> rec.trust_framework, steps |-> rec.steps,
     signatures |-> rec.signatures]

\* --------------------------------------------------------- request inputs
DayPairs == {p \in (1..MaxDay) \X (1..MaxDay) : p[1] < p[2]}

\* the validated bodies of POST /api/v1/sign/edp
EdpRequests ==
    {[from_date |-> Day(p[1]), to_date |-> Day(p[2]),
      permission_granted |-> PermissionInstant(1),
      permission_expires |-> PermissionInstant(2),
      service_url |-> u, account |-> "acc-1", fapi_id |-> "fapi-1",
      cap_member |-> m, origin_url |-> "https://origin",
      origin_license_url |-> "https://origin/licence"] :
        p \in DayPairs, u \in Urls, m \in Members}

\* the validated bodies of POST /api/v1/sign/cap, but for edp_data_attachment
CapParameters ==
    {[cap_member_id |-> m, bank_member_id |-> "member-2",
      cap_account |-> "cap-acc-1",
      cap_permission_granted |-> PermissionInstant(1),
      cap_permission_expires |-> PermissionInstant(2),
      grid_intensity_origin |-> "https://grid",
      grid_intensity_license |-> "https://grid/licence",
      postcode |-> "CF99", edp_service_url |-> u, edp_member_id |-> e,
      bank_service_url |-> "https://bank",
      from_date |-> Day(p[1]), to_date |-> Day(p[2])] :
        p \in DayPairs, u \in Urls, m \in Members, e \in Members}

\* ---------------------------------------- app/models.py: request models
\* the datetimes a JSON body can carry: with or without fractional seconds,
\* with or without a UTC offset
Datetimes == [day : 1..MaxDay, micro : BOOLEAN, aware : BOOLEAN]

\* the bodies posted to /api/v1/sign/edp, before validation
EdpPayloads ==
    {[from_date |-> f, to_date |-> t,
      permission_granted |-> g, permission_expires |-> e,
      service_url |-> "https://svc-1", account |-> "acc-1",
      fapi_id |-> "fapi-1", cap_member |-> "member-1",
      origin_url |-> "https://origin",
      origin_license_url |-> "https://origin/licence"] :
        f \in Datetimes, t \in Datetimes, g \in Datetimes, e \in Datetimes}

\* the bodies posted to /api/v1/sign/cap, before validation, but for
\* edp_data_attachment
CapPayloads ==
    {[cap_member_id |-> "member-1", bank_member_id |-> "member-2",
      cap_account |-> "cap-acc-1",
      cap_permission_granted |-> g, cap_permission_expires |-> e,
      grid_intensity_origin |-> "https://grid",
      grid_intensity_license |-> "https://grid/licence",
      postcode |-> "CF99", edp_service_url |-> "https://svc-1",
      edp_member_id |-> "member-1", bank_service_url |-> "https://bank",
      from_date |-> f, to_date |-> t] :
        f \in Datetimes, t \in Datetimes, g \in Datetimes, e \in Datetimes}

\* v <= start on datetimes: TypeError between a naive and an aware one,
\* else the order of the instants
DatetimeLe(v, start) ==
    IF v.aware # start.aware THEN "TypeError"
    ELSE IF \/ v.day < start.day
            \/ v.day = start.day /\ (v.micro => start.micro)
         THEN "True" ELSE "False"

\* a field validator "v must be after data[start]": skipped when the start
\* field did not validate, ValueError when v <= start
ValidateAfter(v, data, start) ==
    IF start \notin DOMAIN data THEN "ok"
    ELSE CASE DatetimeLe(v, data[start]) = "TypeError" -> "TypeError"
           [] DatetimeLe(v, data[start]) = "True" -> "ValueError"
           [] OTHER -> "ok"

validate_date_range(v, data) == ValidateAfter(v, data, "from_date")

validate_permission_expiry(v, data) ==
    ValidateAfter(v, data, "permission_granted")

cap_validate_permission_expiry(v, data) ==
    ValidateAfter(v, data, "cap_permission_granted")

\* model validation: a ValueError of a field validator becomes a validation
\* error of the model, any other exception leaves the validation as it is
ModelOutcome(checks) ==
    IF "TypeError" \in checks THEN "TypeError"
    ELSE IF "ValueError" \in checks THEN "ValidationError"
    ELSE "accepted"

EdpProvenanceRecordRequest(payload) ==
    ModelOutcome({validate_date_range(payload.to_date, payload),
                  validate_permission_expiry(payload.permission_expires,
                                             payload)})

CapProvenanceRecordRequest(payload) ==
    ModelOutcome({cap_validate_permission_expiry(
                      payload.cap_permission_expires, payload),
                  validate_date_range(payload.to_date, payload)})

\* ------------------------------------------- app/models.py: step schemas
\* the fields PermissionStep, OriginStep and TransferStep declare as required
\* (Field(...)), under the names they declare them
RequiredFields(type) ==
    CASE type = "permission" ->
            {"scheme", "timestamp", "account", "allows", "expires"}
      [] type = "origin" ->
            {"scheme", "sourceType", "origin", "originLicence", "external",
             "permissions"}
      [] type = "transfer" ->
            {"scheme", "of", "to", "standard", "licence", "service", "path",
             "parameters", "permissions", "transaction"}
      [] OTHER -> {}

\* --------------------------------------- app/provenance.py: step payloads
EdpPermissionStep(req) ==
    [type |-> "permission", scheme |-> SCHEME_URL,
     timestamp |-> PermissionTimestamp(req.permission_granted),
     account |-> req.account,
     allows |-> [licences |-> <<LicenceEnergy>>],
     expires |-> PermissionTimestamp(req.permission_expires)]

EdpOriginStep(req, edp_permission_id) ==
    [type |-> "origin", scheme |-> SCHEME_URL,
     sourceType |-> "SCHEME/source-type/Meter",
     origin |-> req.origin_url,
     originLicence |-> req.origin_license_url,
     external |-> TRUE,
     permissions |-> <<edp_permission_id>>]
    @@ ("perseus:scheme" :>
            [meteringPeriod |-> [from |-> DateZ(req.from_date),
                                 to |-> DateZ(req.to_date)]])
    @@ ("perseus:assurance" :>
            [dataSource |-> "SCHEME/assurance/data-source/SmartMeter"])

\* the transfer step with "of" one id too far
EdpTransferStepOffByOne(req, origin_id, edp_permission_id) ==
    [type |-> "transfer", scheme |-> SCHEME_URL,
     of |-> origin_id + 1, to |-> req.cap_member,
     standard |-> StandardEnergy, licence |-> LicenceEnergy,
     service |-> req.service_url, path |-> "/readings",
     parameters |-> [measure |-> "import", from |-> DateZ(req.from_date),
                     to |-> DateZ(req.to_date)],
     permissions |-> <<edp_permission_id>>,
     transaction |-> req.fapi_id]

EdpTransferStep(req, origin_id, edp_permission_id) ==
    [type |-> "transfer", scheme |-> SCHEME_URL,
     of |-> origin_id, to |-> req.cap_member,
     standard |-> StandardEnergy, licence |-> LicenceEnergy,
     service |-> req.service_url, path |-> "/readings",
     parameters |-> [measure |-> "import", from |-> DateZ(req.from_date),
                     to |-> DateZ(req.to_date)],
     permissions |-> <<edp_permission_id>>,
     transaction |-> req.fapi_id]

\* the lookup criteria naming the onward service instead of the data service
search_criteria_bank_service(req) ==
    [type |-> "transfer", scheme |-> SCHEME_URL,
     to |-> req.cap_member_id,
     standard |-> StandardEnergy, licence |-> LicenceEnergy,
     service |-> req.bank_service_url, path |-> "/readings",
     parameters |-> [measure |-> "import", from |-> DateZ(req.from_date),
                     to |-> DateZ(req.to_date)]]
    @@ ("_signature" :>
            [signed |-> [member |-> req.edp_member_id, roles |-> <<RoleCap>>]])

search_criteria(req) ==
    [type |-> "transfer", scheme |-> SCHEME_URL,
     to |-> req.cap_member_id,
     standard |-> StandardEnergy, licence |-> LicenceEnergy,
     service |-> req.edp_service_url, path |-> "/readings",
     parameters |-> [measure |-> "import", from |-> DateZ(req.from_date),
                     to |-> DateZ(req.to_date)]]
    @@ ("_signature" :>
            [signed |-> [member |-> req.edp_member_id, roles |-> <<RoleCap>>]])

\* the receipt referring to the step before the transfer it was found by
CapReceiptStepOfOrigin(transfer_id) ==
    [type |-> "receipt", transfer |-> transfer_id - 1]

CapReceiptStep(transfer_id) == [type |-> "receipt", transfer |-> transfer_id]

CapPermissionStep(req) ==
    [type |-> "permission", scheme |-> SCHEME_URL,
     timestamp |-> PermissionTimestamp(req.cap_permission_granted),
     account |-> req.cap_account,
     allows |-> [licenses |-> <<"SCHEME/license/emissions-report/2024-12-05">>,
                 processes |-> <<"SCHEME/process/emissions-calculations/2024-12-05">>],
     expires |-> PermissionTimestamp(req.cap_permission_expires)]

CapOriginStep(req) ==
    [type |-> "origin", scheme |-> SCHEME_URL,
     sourceType |-> "SCHEME/source-type/GridCarbonIntensity",
     origin |-> req.grid_intensity_origin,
     originLicense |-> req.grid_intensity_license,
     external |-> TRUE]
    @@ ("perseus:scheme" :>
            [meteringPeriod |-> [from |-> DateZ(req.from_date),
                                 to |-> DateZ(req.to_date)],
             postcode |-> req.postcode])
    @@ ("perseus:assurance" :>
            [missingData |-> "SCHEME/assurance/missing-data/Complete"])

CapProcessStep(cap_receipt_id, cap_intensity_origin_id, cap_permission_id) ==
    [type |-> "process", scheme |-> SCHEME_URL,
     inputs |-> <<cap_receipt_id, cap_intensity_origin_id>>,
     process |-> "SCHEME/process/emissions-calculations/2024-12-05",
     permissions |-> <<cap_permission_id>>]
    @@ ("perseus:assurance" :>
            [missingData |-> "SCHEME/assurance/missing-data/Substituted"])

CapTransferStep(req, cap_processing_id, cap_permission_id) ==
    [type |-> "transfer", scheme |-> SCHEME_URL,
     of |-> cap_processing_id, to |-> req.bank_member_id,
     standard |-> "SCHEME/standard/emissions-report/2024-12-05",
     licence |-> "SCHEME/licence/emissions-report/2024-12-05",
     service |-> req.bank_service_url, path |-> "/emissions",
     parameters |-> [from |-> DateZ(req.from_date), to |-> DateZ(req.to_date)],
     permissions |-> <<cap_permission_id>>]

\* ------------------------------------- app/provenance.py: record assembly
Failed(e) == [err |-> e, signed |-> <<>>, artifact |-> <<>>]

\* create_edp_provenance_record returning edp_record.encoded(): the record as
\* it was before sign()
create_edp_encoding_unsigned(s, req) ==
    LET edp_record == NewRecord(TRUST_FRAMEWORK_URL)
        permission == add_step(edp_record, EdpPermissionStep(req))
        origin == add_step(permission.rec, EdpOriginStep(req, permission.id))
        transfer == add_step(origin.rec,
                             EdpTransferStep(req, origin.id, permission.id))
        edp_record_signed == sign(transfer.rec, s)
    IN  [err |-> "none", signed |-> <<edp_record_signed>>,
         artifact |-> <<encoded(transfer.rec)>>]

create_edp_provenance_record(s, req) ==
    LET edp_record == NewRecord(TRUST_FRAMEWORK_URL)
        permission == add_step(edp_record, EdpPermissionStep(req))
        origin == add_step(permission.rec, EdpOriginStep(req, permission.id))
        transfer == add_step(origin.rec,
                             EdpTransferStep(req, origin.id, permission.id))
        edp_record_signed == sign(transfer.rec, s)
    IN  IF permission.err # "none" THEN Failed(permission.err)
        ELSE IF origin.err # "none" THEN Failed(origin.err)
        ELSE IF transfer.err # "none" THEN Failed(transfer.err)
        ELSE [err |-> "none", signed |-> <<edp_record_signed>>,
              artifact |-> <<encoded(edp_record_signed)>>]

\* ---------------------------------------------------- main.py: endpoints
NoResponse ==
    [endpoint |-> "none", outcome |-> "none", via |-> "none", exc |-> "none",
     input |-> <<>>, body |-> <<>>]

CapIdle ==
    [pc |-> "idle", req |-> <<>>, rec |-> <<>>, transfer_id |-> 0,
     cap_receipt_id |-> 0, cap_permission_id |-> 0,
     cap_intensity_origin_id |-> 0, cap_processing_id |-> 0]

\* context before lifespan has filled it
NoSigner == [member |-> "none", roles |-> <<>>, root |-> "none"]
NoProvider == [root |-> "none"]

\* the Signer get_signer built: its certificate is the bundle's
ResolvedSigner == [member |-> "member-1", roles |-> <<RoleCap>>, root |-> "root-1"]

\* sign_edp resolving a Signer of its own for the request
sign_edp_resolving(req) ==
    /\ cap.pc = "idle"
    /\ wire = <<>>
    /\ signer' = ResolvedSigner
    /\ boot' = [boot EXCEPT !.made.signer = @ + 1]
    /\ LET out == create_edp_provenance_record(ResolvedSigner, req) IN
        /\ wire' = out.artifact
        /\ sealed' = out.signed
        /\ resp' = [endpoint |-> "sign/edp", outcome |-> "ok",
                    via |-> "return", exc |-> "none", input |-> <<>>,
                    body |-> out.artifact]
    /\ UNCHANGED <<gsVars, eng, val, http, edp, provider, cap, hops>>

\* POST /api/v1/sign/edp
sign_edp(req) ==
    /\ cap.pc = "idle"
    /\ wire = <<>>
    /\ LET out == create_edp_provenance_record(signer, req) IN
        IF out.err = "none"
        THEN /\ wire' = out.artifact
             /\ sealed' = out.signed
             /\ resp' = [endpoint |-> "sign/edp", outcome |-> "ok", via |-> "return",
                         exc |-> "none", input |-> <<>>, body |-> out.artifact]
        ELSE /\ resp' = [endpoint |-> "sign/edp", outcome |-> "error", via |-> "HTTPException",
                         exc |-> out.err, input |-> <<>>, body |-> <<>>]
             /\ UNCHANGED <<othVars, wire, sealed>>
    /\ UNCHANGED <<othVars, gsVars, eng, signer, provider, cap, hops>>

\* sign_cap's except branch: the exception ends the request
CapRaise(exc) ==
    /\ cap' = CapIdle
    /\ resp' = [endpoint |-> "sign/cap", outcome |-> "error", via |-> "HTTPException", exc |-> exc,
                input |-> <<cap.req.edp_data_attachment>>, body |-> <<>>]
    /\ UNCHANGED <<othVars, gsVars, eng, signer, provider, wire, sealed, hops>>

CapStep(next) ==
    /\ cap' = next
    /\ UNCHANGED <<othVars, gsVars, eng, signer, provider, wire, sealed, resp, hops>>

\* cap_record.verify(certificate_provider) with its failure swallowed
CapVerifyIgnored(rec) == "none"

\* cap_record.verify(certificate_provider): "none", or the error it raises
CapVerify(rec) == verify(rec, provider)

\* POST /api/v1/sign/cap arrives: cap_record = Record(TRUST_FRAMEWORK_URL,
\* edp_data_attachment), then cap_record.verify(certificate_provider)
CapOpen(params) ==
    /\ cap.pc = "idle"
    /\ wire # <<>>
    /\ hops < MaxHops
    /\ LET opened == OpenRecord(TRUST_FRAMEWORK_URL, wire[1])
           req == [edp_data_attachment |-> wire[1]] @@ params
           failure == IF opened.err # "none" THEN opened.err
                      ELSE CapVerify(opened.rec)
       IN  IF failure # "none"
           THEN /\ cap' = CapIdle
                /\ resp' = [endpoint |-> "sign/cap", outcome |-> "error", via |-> "HTTPException",
                            exc |-> failure, input |-> <<wire[1]>>,
                            body |-> <<>>]
                /\ UNCHANGED <<othVars, gsVars, eng, signer, provider, wire, sealed, hops>>
           ELSE CapStep([cap EXCEPT !.pc = "find", !.req = req,
                            !.rec = <<[opened.rec EXCEPT !.verified = TRUE]>>])

\* transfer_from_edp_step = cap_record.find_step(search_criteria)
CapFind ==
    /\ cap.pc = "find"
    /\ LET found == find_step(cap.rec[1], search_criteria(cap.req)) IN
        IF found.err # "none" THEN CapRaise(found.err)
        ELSE CapStep([cap EXCEPT !.pc = "receipt",
                        !.transfer_id = AllSteps(cap.rec[1])[found.index].id])

\* one add_step that puts the new step in front of the steps of this hop
CapAddPrepending(at, payload, local, next) ==
    /\ cap.pc = at
    /\ LET added == add_step(cap.rec[1], payload) IN
        IF added.err # "none" THEN CapRaise(added.err)
        ELSE CapStep([cap EXCEPT !.pc = next,
                        !.rec = <<[cap.rec[1] EXCEPT !.added =
                                    <<("id" :> added.id) @@ payload>>
                                        \o cap.rec[1].added]>>,
                        ![local] = added.id])

\* one add_step of the receiving-party workflow
CapAdd(at, payload, local, next) ==
    /\ cap.pc = at
    /\ LET added == add_step(cap.rec[1], payload) IN
        IF added.err # "none" THEN CapRaise(added.err)
        ELSE CapStep([cap EXCEPT !.pc = next, !.rec = <<added.rec>>,
                                 ![local] = added.id])

CapAddReceipt ==
    CapAdd("receipt", CapReceiptStep(cap.transfer_id), "cap_receipt_id",
           "permission")

CapAddPermission ==
    CapAdd("permission", CapPermissionStep(cap.req), "cap_permission_id",
           "origin")

CapAddOrigin ==
    CapAdd("origin", CapOriginStep(cap.req), "cap_intensity_origin_id",
           "process")

CapAddProcess ==
    CapAdd("process",
           CapProcessStep(cap.cap_receipt_id, cap.cap_intensity_origin_id,
                          cap.cap_permission_id),
           "cap_processing_id", "transfer")

\* the last add_step: its id is not kept
CapAddTransfer ==
    /\ cap.pc = "transfer"
    /\ LET added == add_step(cap.rec[1],
                        CapTransferStep(cap.req, cap.cap_processing_id,
                                        cap.cap_permission_id)) IN
        IF added.err # "none" THEN CapRaise(added.err)
        ELSE CapStep([cap EXCEPT !.pc = "sign", !.rec = <<added.rec>>])

\* the seal put on a fresh Record holding only the steps of this hop
CapSignOwnStepsOnly ==
    /\ cap.pc = "sign"
    /\ LET own == [NewRecord(cap.rec[1].trust_framework)
                        EXCEPT !.added = cap.rec[1].added]
           cap_record_signed == sign(own, signer) IN
        /\ wire' = <<encoded(cap_record_signed)>>
        /\ sealed' = <<cap_record_signed>>
        /\ resp' = [endpoint |-> "sign/cap", outcome |-> "ok", via |-> "return", exc |-> "none",
                    input |-> <<cap.req.edp_data_attachment>>,
                    body |-> <<encoded(cap_record_signed)>>]
    /\ cap' = CapIdle
    /\ hops' = hops + 1
    /\ UNCHANGED <<othVars, gsVars, eng, signer, provider>>

\* cap_record.sign(signer), .encoded(), and sign_cap's return
CapSign ==
    /\ cap.pc = "sign"
    /\ LET cap_record_signed == sign(cap.rec[1], signer) IN
        /\ wire' = <<encoded(cap_record_signed)>>
        /\ sealed' = <<cap_record_signed>>
        /\ resp' = [endpoint |-> "sign/cap", outcome |-> "ok", via |-> "return", exc |-> "none",
                    input |-> <<cap.req.edp_data_attachment>>,
                    body |-> <<encoded(cap_record_signed)>>]
    /\ cap' = CapIdle
    /\ hops' = hops + 1
    /\ UNCHANGED <<othVars, gsVars, eng, signer, provider>>

\* record.verify(context["certificate_provider"]) with its failure swallowed
DecodeVerifyIgnored(rec) == "none"

\* record.verify(context["certificate_provider"]): "none", or the error raised
DecodeVerify(rec) == verify(rec, provider)

\* POST /api/v1/decode returning record.decoded() whatever verify said
decode_unverified ==
    /\ cap.pc = "idle"
    /\ wire # <<>>
    /\ LET record_encoded == wire[1]
           opened == OpenRecord(record_encoded["ib1:provenance"], record_encoded)
       IN  resp' = [endpoint |-> "decode", outcome |-> "ok", via |-> "return",
                    exc |-> "none", input |-> <<record_encoded>>,
                    body |-> <<decoded(opened.rec)>>]
    /\ UNCHANGED <<othVars, gsVars, eng, signer, provider, wire, sealed, cap, hops>>

\* POST /api/v1/decode
decode_provenance_record ==
    /\ cap.pc = "idle"
    /\ wire # <<>>
    /\ LET record_encoded == wire[1]
           opened == OpenRecord(record_encoded["ib1:provenance"], record_encoded)
           v == DecodeVerify(opened.rec)
       IN  resp' =
             IF opened.err # "none"
             THEN [endpoint |-> "decode", outcome |-> "error", via |-> "unhandled",
                   exc |-> opened.err, input |-> <<record_encoded>>,
                   body |-> <<>>]
             ELSE IF v # "none"
             THEN [endpoint |-> "decode", outcome |-> "error", via |-> "unhandled", exc |-> v,
                   input |-> <<record_encoded>>, body |-> <<>>]
             ELSE [endpoint |-> "decode", outcome |-> "ok", via |-> "return", exc |-> "none",
                   input |-> <<record_encoded>>,
                   body |-> <<decoded(opened.rec)>>]
    /\ UNCHANGED <<othVars, gsVars, eng, signer, provider, wire, sealed, cap, hops>>

\* ------------------------------------------------ the artifact in transit
TamperedValue(k, v) ==
    IF k \in {"id", "of", "transfer"} THEN v + 100
    ELSE IF k \in {"permissions", "inputs"} THEN <<100>> \o v
    ELSE IF k = "external" THEN ~v
    ELSE IF k \in {"timestamp", "expires"} THEN <<"X">> \o v
    ELSE IF k \in NestedKeys THEN [tampered |-> "tampered"]
    ELSE "tampered"

\* the artifact with field k of step i changed
TamperAt(artifact, i, k) ==
    [artifact EXCEPT !.steps[i][k] = TamperedValue(k, @)]

\* whoever carries the artifact changes one field of one step after sealing
Tamper ==
    /\ cap.pc = "idle"
    /\ wire # <<>>
    /\ wire[1] = encoded(sealed[1])
    /\ \E i \in 1..Len(wire[1].steps) : \E k \in DOMAIN wire[1].steps[i] :
            wire' = <<TamperAt(wire[1], i, k)>>
    /\ UNCHANGED <<othVars, gsVars, eng, signer, provider, sealed, cap, resp, hops>>

\* the "ib1:provenance" value of an artifact of another trust framework
ForeignTrustFramework == "https://registry.other.example/trust-framework"

\* the artifact a party of another trust framework sealed over the same steps,
\* its certificate chaining to the same root
ForeignRecord(req) ==
    LET own == create_edp_provenance_record(signer, req).signed[1]
    IN  sign([NewRecord(ForeignTrustFramework) EXCEPT !.added = own.steps],
             [member |-> "member-2", roles |-> <<RoleCap>>,
              root |-> provider.root])

\* a client posts an artifact that was sealed under another trust framework
ReceiveForeign(req) ==
    /\ cap.pc = "idle"
    /\ wire = <<>>
    /\ wire' = <<encoded(ForeignRecord(req))>>
    /\ sealed' = <<ForeignRecord(req)>>
    /\ UNCHANGED <<othVars, gsVars, eng, signer, provider, cap, resp, hops>>

\* -------------------------- app/provenance.py: the receiving-party assembly
\* create_cap_provenance_record as one call: open, verify, find the transfer
\* step, append receipt, permission, origin, process and transfer, sign, encode
create_cap_provenance_record(s, cp, req) ==
    LET opened == OpenRecord(TRUST_FRAMEWORK_URL, req.edp_data_attachment)
        v == verify(opened.rec, cp)
        cap_record == [opened.rec EXCEPT !.verified = TRUE]
        found == find_step(cap_record, search_criteria(req))
        tid == IF found.err = "none"
               THEN AllSteps(cap_record)[found.index].id ELSE 0
        receipt == add_step(cap_record, CapReceiptStep(tid))
        permission == add_step(receipt.rec, CapPermissionStep(req))
        origin == add_step(permission.rec, CapOriginStep(req))
        process == add_step(origin.rec,
                            CapProcessStep(receipt.id, origin.id, permission.id))
        transfer == add_step(process.rec,
                             CapTransferStep(req, process.id, permission.id))
        cap_record_signed == sign(transfer.rec, s)
    IN  IF opened.err # "none" THEN Failed(opened.err)
        ELSE IF v # "none" THEN Failed(v)
        ELSE IF found.err # "none" THEN Failed(found.err)
        ELSE IF receipt.err # "none" THEN Failed(receipt.err)
        ELSE IF permission.err # "none" THEN Failed(permission.err)
        ELSE IF origin.err # "none" THEN Failed(origin.err)
        ELSE IF process.err # "none" THEN Failed(process.err)
        ELSE IF transfer.err # "none" THEN Failed(transfer.err)
        ELSE [err |-> "none", signed |-> <<cap_record_signed>>,
              artifact |-> <<encoded(cap_record_signed)>>]

\* ------------------------------------- main.py: the boundary error mapping
HTTP_200_OK == 200
HTTP_400_BAD_REQUEST == 400
HTTP_500_INTERNAL_SERVER_ERROR == 500
HTTP_503_SERVICE_UNAVAILABLE == 503

EdpAction == "create EDP provenance record"
CapAction == "create CAP provenance record"

\* the classes of an exception class, itself first (its method resolution
\* order, up to Exception)
Mro(class) ==
    IF class = "UnicodeDecodeError"
    THEN <<"UnicodeDecodeError", "ValueError", "Exception">>
    ELSE <<class, "Exception">>

isinstance(exc, classes) == SeqToSet(Mro(exc.class)) \cap classes # {}

ExcClasses ==
    {"ValueError", "UnicodeDecodeError", "FrameworkAuthError",
     "ConfigurationError", "KeyNotFoundError", "RuntimeError"}

ExcMessages == {"", "to_date must be after from_date",
                "/keys/signing.pem: permission denied"}

\* the exceptions record assembly may raise: a class and str(exc)
Exceptions == [class : ExcClasses, message : ExcMessages]

\* the mapping without the branch for ConfigurationError
handle_endpoint_exception_no_config(action, exc) ==
    IF isinstance(exc, {"ValueError", "FrameworkAuthError"})
    THEN [status_code |-> HTTP_400_BAD_REQUEST,
          detail |-> IF exc.message # "" THEN <<exc.message>>
                     ELSE <<"Unable to ", action, " due to invalid input.">>,
          log |-> [level |-> "warning", action |-> action, exc |-> exc]]
    ELSE [status_code |-> HTTP_500_INTERNAL_SERVER_ERROR,
          detail |-> <<"Unable to ", action, " at this time.">>,
          log |-> [level |-> "exception", action |-> action, exc |-> exc]]

\* the mapping with the exception's text in the detail of the generic failure
handle_endpoint_exception_leaking(action, exc) ==
    IF isinstance(exc, {"ValueError", "FrameworkAuthError"})
    THEN [status_code |-> HTTP_400_BAD_REQUEST,
          detail |-> IF exc.message # "" THEN <<exc.message>>
                     ELSE <<"Unable to ", action, " due to invalid input.">>,
          log |-> [level |-> "warning", action |-> action, exc |-> exc]]
    ELSE IF isinstance(exc, {"ConfigurationError"})
    THEN [status_code |-> HTTP_503_SERVICE_UNAVAILABLE,
          detail |-> <<"Signing service is not properly configured. Please try again later.">>,
          log |-> [level |-> "error", action |-> action, exc |-> exc]]
    ELSE [status_code |-> HTTP_500_INTERNAL_SERVER_ERROR,
          detail |-> <<"Unable to ", action, ": ", exc.message>>,
          log |-> [level |-> "exception", action |-> action, exc |-> exc]]

\* _handle_endpoint_exception(action, exc): the HTTPException it raises and
\* what it logs
handle_endpoint_exception(action, exc) ==
    IF isinstance(exc, {"ValueError", "FrameworkAuthError"})
    THEN [status_code |-> HTTP_400_BAD_REQUEST,
          detail |-> IF exc.message # "" THEN <<exc.message>>
                     ELSE <<"Unable to ", action, " due to invalid input.">>,
          log |-> [level |-> "warning", action |-> action, exc |-> exc]]
    ELSE IF isinstance(exc, {"ConfigurationError"})
    THEN [status_code |-> HTTP_503_SERVICE_UNAVAILABLE,
          detail |-> <<"Signing service is not properly configured. Please try again later.">>,
          log |-> [level |-> "error", action |-> action, exc |-> exc]]
    ELSE [status_code |-> HTTP_500_INTERNAL_SERVER_ERROR,
          detail |-> <<"Unable to ", action, " at this time.">>,
          log |-> [level |-> "exception", action |-> action, exc |-> exc]]

\* one exchange answered by an endpoint's except branch
Refused(endpoint, action, exc) ==
    LET e == handle_endpoint_exception(action, exc) IN
    [endpoint |-> endpoint, action |-> action, raised |-> <<exc>>,
     status_code |-> e.status_code, detail |-> e.detail, body |-> <<>>,
     log |-> <<e.log>>]

\* one exchange answered by an endpoint's return
Returned(endpoint, action, artifact) ==
    [endpoint |-> endpoint, action |-> action, raised |-> <<>>,
     status_code |-> HTTP_200_OK, detail |-> <<>>, body |-> <<artifact>>,
     log |-> <<>>]

Exchange(x) ==
    /\ Len(http) < MaxExchanges
    /\ http' = Append(http, x)
    /\ UNCHANGED <<wfVars, gsVars, eng, val, boot, edp>>

\* POST /api/v1/sign/edp, create_edp_provenance_record raising exc
sign_edp_raising(exc) ==
    Exchange(Refused("sign/edp", EdpAction, exc))

\* the bodies of POST /api/v1/sign/edp answered at the boundary
BoundaryEdpRequests ==
    {req \in EdpRequests : req.from_date = Day(1) /\ req.to_date = Day(2)}

\* POST /api/v1/sign/edp, create_edp_provenance_record returning
sign_edp_returning(req) ==
    /\ create_edp_provenance_record(signer, req).err = "none"
    /\ Exchange(Returned("sign/edp", EdpAction,
                         create_edp_provenance_record(signer, req).artifact[1]))

\* POST /api/v1/sign/cap, create_cap_provenance_record raising exc
sign_cap_raising(exc) ==
    Exchange(Refused("sign/cap", CapAction, exc))

\* POST /api/v1/sign/cap, create_cap_provenance_record returning
sign_cap_returning(req) ==
    /\ create_cap_provenance_record(signer, provider, req).err = "none"
    /\ Exchange(Returned("sign/cap", CapAction,
            create_cap_provenance_record(signer, provider, req).artifact[1]))

\* the bodies of POST /api/v1/sign/cap carrying an artifact sign/edp returned
CapRequests ==
    {[edp_data_attachment |->
            create_edp_provenance_record(signer, req).artifact[1]] @@ params :
        req \in BoundaryEdpRequests,
        params \in {q \in CapParameters :
                        /\ q.from_date = Day(1)
                        /\ q.to_date = Day(2)
                        /\ q.edp_member_id = "member-1"}}

\* ---------------------- app/provenance.py: sign/edp requests in flight
\* create_edp_provenance_record one statement at a time, for the requests the
\* thread pool serves at once; each has its locals in its own slot
Slots == 1..MaxInFlight

EdpIdle ==
    [pc |-> "idle", req |-> <<>>, rec |-> <<>>, edp_permission_id |-> 0,
     origin_id |-> 0, exc |-> "none", out |-> <<>>]

EdpNoneInFlight == [r \in Slots |-> EdpIdle]

\* every request building on one Record kept outside the function
EdpRecordSlotShared(r) == 1

\* where request r keeps edp_record: a local of its own call
EdpRecordSlot(r) == r

EdpRecord(r) == edp[EdpRecordSlot(r)].rec[1]

EdpUnchanged == UNCHANGED <<wfVars, gsVars, eng, val, http, boot>>

\* edp_record = Record(conf.TRUST_FRAMEWORK_URL)
EdpBegin(r, req) ==
    /\ edp[r].pc = "idle"
    /\ edp' = [edp EXCEPT ![r].pc = "permission", ![r].req = <<req>>,
                          ![EdpRecordSlot(r)].rec =
                                <<NewRecord(TRUST_FRAMEWORK_URL)>>]
    /\ EdpUnchanged

\* one add_step of the originating-party workflow
EdpAdd(r, at, payload, local, next) ==
    /\ edp[r].pc = at
    /\ LET added == add_step(EdpRecord(r), payload) IN
        IF added.err # "none"
        THEN edp' = [edp EXCEPT ![r].pc = "done", ![r].exc = added.err]
        ELSE edp' = [edp EXCEPT ![r].pc = next, ![r][local] = added.id,
                                ![EdpRecordSlot(r)].rec = <<added.rec>>]
    /\ EdpUnchanged

EdpAddPermission(r) ==
    /\ edp[r].pc = "permission"
    /\ EdpAdd(r, "permission", EdpPermissionStep(edp[r].req[1]),
              "edp_permission_id", "origin")

EdpAddOrigin(r) ==
    /\ edp[r].pc = "origin"
    /\ EdpAdd(r, "origin",
              EdpOriginStep(edp[r].req[1], edp[r].edp_permission_id),
              "origin_id", "transfer")

\* the last add_step: its id is not kept
EdpAddTransfer(r) ==
    /\ edp[r].pc = "transfer"
    /\ LET added == add_step(EdpRecord(r),
                        EdpTransferStep(edp[r].req[1], edp[r].origin_id,
                                        edp[r].edp_permission_id)) IN
        IF added.err # "none"
        THEN edp' = [edp EXCEPT ![r].pc = "done", ![r].exc = added.err]
        ELSE edp' = [edp EXCEPT ![r].pc = "sign",
                                ![EdpRecordSlot(r)].rec = <<added.rec>>]
    /\ EdpUnchanged

\* edp_record.sign(signer), .encoded(), and sign_edp's return
EdpSign(r) ==
    /\ edp[r].pc = "sign"
    /\ edp' = [edp EXCEPT ![r].pc = "done",
                          ![r].out = <<encoded(sign(EdpRecord(r), signer))>>]
    /\ EdpUnchanged

\* the sign/edp requests served at once
ConcurrentEdpRequests ==
    {req \in EdpRequests :
        /\ req.from_date = Day(1)
        /\ req.to_date = Day(2)
        /\ req.cap_member = "member-1"}

\* the sign/cap requests served along with them
ConcurrentCapParameters ==
    {params \in CapParameters :
        /\ params.from_date = Day(1)
        /\ params.to_date = Day(2)
        /\ params.edp_member_id = "member-1"}

\* ------------------------------------------ app/keystores.py: get_signer
GsStart ==
    [pc |-> "start", tried |-> <<>>, log |-> <<>>, source |-> "none",
     signer |-> "none", exc |-> "none"]

GsRaise(e) ==
    /\ gs' = [gs EXCEPT !.pc = "raised", !.exc = e]
    /\ UNCHANGED <<othVars, wfVars, environ, world, eng>>

GsReturn(kind, tier) ==
    /\ gs' = [gs EXCEPT !.pc = "returned", !.signer = kind, !.source = tier,
                        !.tried = Append(@, tier)]
    /\ UNCHANGED <<othVars, wfVars, environ, world, eng>>

\* get_certificate(certificate_path): the bytes, or the error reading raises
get_certificate(certificate_path) ==
    LET behind == IF certificate_path = "/certs/root.pem" THEN world.root
                  ELSE world.bundle
    IN  IF behind # "unreadable" THEN "none"
        ELSE IF certificate_path = "s3://bucket/bundle.pem" THEN "ClientError"
        ELSE "FileNotFoundError"

\* signer_chain_pem = get_certificate(conf.SIGNING_BUNDLE);
\* certificates = x509.load_pem_x509_certificates(signer_chain_pem)
GsLoadBundle ==
    /\ gs.pc = "start"
    /\ IF get_certificate(environ.SIGNING_BUNDLE) # "none"
       THEN GsRaise(get_certificate(environ.SIGNING_BUNDLE))
       ELSE IF world.bundle = "garbage" THEN GsRaise("ValueError")
       ELSE /\ gs' = [gs EXCEPT !.pc = "kms"]
            /\ UNCHANGED <<othVars, wfVars, environ, world, eng>>

\* the remote tier letting its failure out of get_signer
GsKmsPropagating ==
    /\ gs.pc = "kms"
    /\ IF environ.KMS_KEY_ID # "set"
       THEN /\ gs' = [gs EXCEPT !.pc = "file"]
            /\ UNCHANGED <<othVars, wfVars, environ, world, eng>>
       ELSE IF world.kms = "ok" THEN GsReturn("SignerKMS", "kms")
       ELSE /\ gs' = [gs EXCEPT !.pc = "raised", !.exc = world.kms,
                                !.tried = Append(@, "kms")]
            /\ UNCHANGED <<othVars, wfVars, environ, world, eng>>

\* kms_key_id = os.environ.get("KMS_KEY_ID") or None; if kms_key_id: try
\* get_boto3_client("kms"), SignerKMS(...); except Exception: logger.warning
GsKms ==
    /\ gs.pc = "kms"
    /\ IF environ.KMS_KEY_ID # "set"
       THEN /\ gs' = [gs EXCEPT !.pc = "file"]
            /\ UNCHANGED <<othVars, wfVars, environ, world, eng>>
       ELSE IF world.kms = "ok" THEN GsReturn("SignerKMS", "kms")
       ELSE /\ gs' = [gs EXCEPT !.pc = "file", !.tried = Append(@, "kms"),
                        !.log = Append(@, [level |-> "warning",
                                           error |-> world.kms])]
            /\ UNCHANGED <<othVars, wfVars, environ, world, eng>>

\* open(conf.SIGNING_KEY, "rb"); except FileNotFoundError: raise
\* KeyNotFoundError; load_pem_private_key; SignerInMemory(...)
GsFile ==
    /\ gs.pc = "file"
    /\ IF environ.SIGNING_KEY = "unset"
       THEN /\ gs' = [gs EXCEPT !.pc = "raised", !.exc = "TypeError",
                                !.tried = Append(@, "file")]
            /\ UNCHANGED <<othVars, wfVars, environ, world, eng>>
       ELSE IF world.key = "absent"
       THEN /\ gs' = [gs EXCEPT !.pc = "raised", !.exc = "KeyNotFoundError",
                                !.tried = Append(@, "file")]
            /\ UNCHANGED <<othVars, wfVars, environ, world, eng>>
       ELSE IF world.key = "garbage"
       THEN /\ gs' = [gs EXCEPT !.pc = "raised", !.exc = "ValueError",
                                !.tried = Append(@, "file")]
            /\ UNCHANGED <<othVars, wfVars, environ, world, eng>>
       ELSE GsReturn("SignerInMemory", "file")

\* ------------------------------------------------------ main.py: lifespan
BootStart ==
    [pc |-> "start", exc |-> "none", made |-> [provider |-> 0, signer |-> 0]]

LifespanRaise(e) ==
    /\ boot' = [boot EXCEPT !.pc = "failed", !.exc = e]
    /\ UNCHANGED <<wfVars, gsVars, eng, val, http, edp>>

\* lifespan up to context["certificate_provider"] = certificate_provider
LifespanProvider ==
    /\ boot.pc = "start"
    /\ IF environ.ROOT_CA_CERTIFICATE = "unset" THEN LifespanRaise("ValueError")
       ELSE IF environ.SIGNING_BUNDLE = "unset" THEN LifespanRaise("ValueError")
       ELSE IF get_certificate(environ.ROOT_CA_CERTIFICATE) # "none"
       THEN LifespanRaise(get_certificate(environ.ROOT_CA_CERTIFICATE))
       ELSE /\ provider' = [root |-> "root-1"]
            /\ boot' = [boot EXCEPT !.pc = "get_signer",
                                    !.made.provider = @ + 1]
            /\ UNCHANGED <<gsVars, eng, val, http, edp, signer, wire, sealed, cap, resp,
                           hops>>

\* signer = get_signer(certificate_provider), one statement of it at a time
LifespanGetSigner ==
    /\ boot.pc = "get_signer"
    /\ (GsLoadBundle \/ GsKms \/ GsFile)

\* get_signer returned: context["signer"] = signer; yield
LifespanYield ==
    /\ boot.pc = "get_signer"
    /\ gs.pc = "returned"
    /\ signer' = ResolvedSigner
    /\ boot' = [boot EXCEPT !.pc = "serving", !.made.signer = @ + 1]
    /\ UNCHANGED <<gsVars, eng, val, http, edp, provider, wire, sealed, cap, resp, hops>>

\* get_signer raised: the exception leaves lifespan
LifespanGetSignerRaised ==
    /\ boot.pc = "get_signer"
    /\ gs.pc = "raised"
    /\ LifespanRaise(gs.exc)

\* ------------------------------------------- the chain engine called freely
\* number of steps in a chain built through the engine alone
MaxSteps == 3

EngIds == 1..(MaxSteps + 1)
Measures == {"import", "export"}

EngPayloads ==
    {[type |-> "permission", account |-> a] : a \in Members}
    \cup {[type |-> "origin", permissions |-> <<r>>] : r \in EngIds}
    \cup {[type |-> "transfer", of |-> r, to |-> m,
           parameters |-> [measure |-> x, from |-> "2024-01-01Z"]] :
                r \in EngIds, m \in Members, x \in Measures}
    \cup {[type |-> "receipt", transfer |-> r] : r \in EngIds}

EngCriteria ==
    {[type |-> t] : t \in {"permission", "origin", "transfer", "receipt", "process"}}
    \cup {[type |-> "permission", account |-> a] : a \in Members}
    \cup {[type |-> "transfer", to |-> m] : m \in Members}
    \cup {[type |-> "transfer", parameters |-> [measure |-> x]] : x \in Measures}
    \cup {[type |-> "transfer", to |-> m, parameters |-> [measure |-> x]] :
                m \in Members, x \in Measures}

EngStart ==
    [rec |-> NewRecord(TRUST_FRAMEWORK_URL),
     last |-> [op |-> "none", err |-> "none", arg |-> <<>>, out |-> 0]]

\* record.add_step(payload) on the chain so far
EngAddStep(payload) ==
    /\ Len(AllSteps(eng.rec)) < MaxSteps
    /\ LET added == add_step(eng.rec, payload) IN
        eng' = [rec |-> added.rec,
                last |-> [op |-> "add_step", err |-> added.err,
                          arg |-> <<payload>>, out |-> added.id]]
    /\ UNCHANGED <<othVars, wfVars, gsVars>>

\* record.find_step(criteria) on the chain so far
EngFindStep(crit) ==
    /\ LET found == find_step(eng.rec, crit) IN
        eng' = [eng EXCEPT !.last = [op |-> "find_step", err |-> found.err,
                                     arg |-> <<crit>>, out |-> found.index]]
    /\ UNCHANGED <<othVars, wfVars, gsVars>>

\* ----------------------------------------------------------- specification
\* the process after startup: a Signer and a CertificateProvider in context
WfInit ==
    /\ signer \in [member : {"member-1"},
                   roles : {<<RoleCap>>, <<"SCHEME/role/energy-data-provider">>},
                   root : Roots]
    /\ provider = [root |-> "root-1"]
    /\ wire = <<>>
    /\ sealed = <<>>
    /\ cap = CapIdle
    /\ resp = NoResponse
    /\ hops = 0

\* the process at startup, about to resolve its Signer
GsInit ==
    /\ environ \in [ROOT_CA_CERTIFICATE : {"/certs/root.pem"},
                    KMS_KEY_ID : {"unset", "empty", "set"},
                    SIGNING_KEY : {"unset", "/keys/signing.pem"},
                    SIGNING_BUNDLE : {"s3://bucket/bundle.pem",
                                      "/certs/bundle.pem"}]
    /\ world \in [kms : {"ok", "NoRegionError", "ClientError"},
                  ssm_has_key : BOOLEAN,
                  key : {"absent", "garbage", "valid"},
                  bundle : {"ok", "unreadable", "garbage"},
                  root : {"ok"}]
    /\ gs = GsStart

WfParked ==
    /\ signer = [member |-> "member-1", roles |-> <<RoleCap>>, root |-> "root-1"]
    /\ provider = [root |-> "root-1"]
    /\ wire = <<>>
    /\ sealed = <<>>
    /\ cap = CapIdle
    /\ resp = NoResponse
    /\ hops = 0

GsParked ==
    /\ environ = [ROOT_CA_CERTIFICATE |-> "/certs/root.pem",
                  KMS_KEY_ID |-> "unset", SIGNING_KEY |-> "/keys/signing.pem",
                  SIGNING_BUNDLE |-> "/certs/bundle.pem"]
    /\ world = [kms |-> "ok", ssm_has_key |-> FALSE, key |-> "valid",
                bundle |-> "ok", root |-> "ok"]
    /\ gs = [GsStart EXCEPT !.pc = "returned", !.signer = "SignerInMemory",
                            !.source = "file", !.tried = <<"file">>]

\* lifespan has yielded: both context entries were filled once
BootServing ==
    [pc |-> "serving", exc |-> "none", made |-> [provider |-> 1, signer |-> 1]]

\* no request body is at the models
ValIdle == [pc |-> "idle"]

OthParked ==
    http = <<>> /\ boot = BootServing /\ edp = EdpNoneInFlight /\ val = ValIdle

Init == WfInit /\ GsParked /\ eng = EngStart /\ OthParked

Next ==
    \/ \E req \in EdpRequests : sign_edp(req)
    \/ \E params \in CapParameters : CapOpen(params)
    \/ CapFind
    \/ CapAddReceipt
    \/ CapAddPermission
    \/ CapAddOrigin
    \/ CapAddProcess
    \/ CapAddTransfer
    \/ CapSign
    \/ decode_provenance_record
    \/ Tamper

\* the requests served by one process, one chain in transit
Spec == Init /\ [][Next]_vars

OpenNext ==
    \/ Next
    \/ \E req \in EdpRequests : ReceiveForeign(req)

\* the requests served when artifacts of other trust frameworks arrive too
SpecOpen == Init /\ [][OpenNext]_vars

BoundaryInit == WfParked /\ GsParked /\ eng = EngStart /\ OthParked

BoundaryNext ==
    \/ \E exc \in Exceptions : sign_edp_raising(exc)
    \/ \E req \in BoundaryEdpRequests : sign_edp_returning(req)
    \/ \E exc \in Exceptions : sign_cap_raising(exc)
    \/ \E req \in CapRequests : sign_cap_returning(req)

\* the sign endpoints with record assembly returning or raising anything
SpecBoundary == BoundaryInit /\ [][BoundaryNext]_vars

\* the process before lifespan ran, over the configurations it may be given
StartupInit ==
    /\ environ \in [ROOT_CA_CERTIFICATE : {"unset", "/certs/root.pem"},
                    KMS_KEY_ID : {"unset", "set"},
                    SIGNING_KEY : {"unset", "/keys/signing.pem"},
                    SIGNING_BUNDLE : {"unset", "/certs/bundle.pem"}]
    /\ world \in [kms : {"ok", "ClientError"}, ssm_has_key : {FALSE},
                  key : {"absent", "valid"}, bundle : {"ok", "unreadable"},
                  root : {"ok", "unreadable"}]
    /\ environ.KMS_KEY_ID = "unset" => world.kms = "ok"
    /\ environ.SIGNING_KEY = "unset" => world.key = "absent"
    /\ environ.SIGNING_BUNDLE = "unset" => world.bundle = "unreadable"
    /\ environ.ROOT_CA_CERTIFICATE = "unset" => world.root = "unreadable"
    /\ gs = GsStart
    /\ boot = BootStart
    /\ signer = NoSigner
    /\ provider = NoProvider
    /\ wire = <<>>
    /\ sealed = <<>>
    /\ cap = CapIdle
    /\ resp = NoResponse
    /\ hops = 0
    /\ eng = EngStart
    /\ http = <<>>
    /\ edp = EdpNoneInFlight
    /\ val = ValIdle

StartupNext ==
    \/ LifespanProvider
    \/ LifespanGetSigner
    \/ LifespanYield
    \/ LifespanGetSignerRaised
    \/ (boot.pc = "serving" /\
            \/ \E req \in ConcurrentEdpRequests : sign_edp(req)
            \/ \E params \in ConcurrentCapParameters : CapOpen(params)
            \/ CapFind
            \/ CapAddReceipt
            \/ CapAddPermission
            \/ CapAddOrigin
            \/ CapAddProcess
            \/ CapAddTransfer
            \/ CapSign
            \/ decode_provenance_record
            \/ Tamper)

\* the process from its start: lifespan, then the requests it serves
SpecStartup == StartupInit /\ [][StartupNext]_vars

\* the process serving, an artifact of an earlier sign/edp with the
\* receiving party
ConcurrentInit ==
    /\ signer = ResolvedSigner
    /\ provider = [root |-> "root-1"]
    /\ \E req \in ConcurrentEdpRequests :
            /\ wire = create_edp_provenance_record(ResolvedSigner, req).artifact
            /\ sealed = create_edp_provenance_record(ResolvedSigner, req).signed
    /\ cap = CapIdle
    /\ resp = NoResponse
    /\ hops = MaxHops - 1
    /\ GsParked
    /\ eng = EngStart
    /\ OthParked

ConcurrentNext ==
    \/ \E r \in Slots : \E req \in ConcurrentEdpRequests : EdpBegin(r, req)
    \/ \E r \in Slots : EdpAddPermission(r)
    \/ \E r \in Slots : EdpAddOrigin(r)
    \/ \E r \in Slots : EdpAddTransfer(r)
    \/ \E r \in Slots : EdpSign(r)
    \/ \E params \in ConcurrentCapParameters : CapOpen(params)
    \/ CapFind
    \/ CapAddReceipt
    \/ CapAddPermission
    \/ CapAddOrigin
    \/ CapAddProcess
    \/ CapAddTransfer
    \/ CapSign

\* sign/edp and sign/cap requests served at once, statement by statement
SpecConcurrent == ConcurrentInit /\ [][ConcurrentNext]_vars

SignerInit == WfParked /\ GsInit /\ eng = EngStart /\ OthParked

SignerNext == GsLoadBundle \/ GsKms \/ GsFile

\* signer resolution at process start, over every configuration
SpecSigner == SignerInit /\ [][SignerNext]_vars

EngineInit == WfParked /\ GsParked /\ eng = EngStart /\ OthParked

EngineNext ==
    \/ \E payload \in EngPayloads : EngAddStep(payload)
    \/ \E crit \in EngCriteria : EngFindStep(crit)

\* the chain engine under every sequence of appends and lookups
SpecEngine == EngineInit /\ [][EngineNext]_vars

\* ------------------------------------------------------------------ claims
Reopened(artifact) == OpenRecord(TRUST_FRAMEWORK_URL, artifact).rec

\* every reference of every step is the id of a strictly earlier step
ReferencesEarlier(steps) ==
    \A i \in 1..Len(steps) : \A r \in References(steps[i]) :
        \E j \in 1..(i - 1) : steps[j].id = r

StepTypes(steps) == [i \in 1..Len(steps) |-> steps[i].type]

\* C1: in the receiving-party workflow nothing is looked up, appended or
\* sealed on a chain reconstructed from a received artifact unless verify
\* succeeded on it first; when verify fails the request ends with an error,
\* no appended step and no encoded artifact.
C1_VerifyBeforeExtend ==
    /\ cap.pc # "idle" =>
        /\ cap.rec[1].verified
        /\ verify(Reopened(cap.req.edp_data_attachment), provider) = "none"
    /\ cap.pc = "idle" => cap.rec = <<>>
    /\ (/\ resp.endpoint = "sign/cap"
        /\ verify(Reopened(resp.input[1]), provider) # "none") =>
            /\ resp.outcome = "error"
            /\ resp.body = <<>>

C1_Witness ==
    /\ resp.endpoint = "sign/cap"
    /\ resp.exc = "SignatureInvalidError"
    /\ cap.pc = "idle"
    /\ wire = resp.input

\* C5: given a sealed chain that verifies, the artifact with any one field of
\* any one step changed fails verify with SignatureInvalidError, and neither
\* the decode endpoint nor the receiving-party workflow accepts an altered
\* artifact.
C5_TamperDetected ==
    /\ (sealed # <<>> /\ verify(sealed[1], provider) = "none") =>
        /\ \A i \in 1..Len(sealed[1].steps) :
            \A k \in DOMAIN sealed[1].steps[i] :
                verify(Reopened(TamperAt(encoded(sealed[1]), i, k)), provider)
                    = "SignatureInvalidError"
        /\ (/\ resp.endpoint \in {"decode", "sign/cap"}
            /\ resp.input = wire
            /\ wire[1] # encoded(sealed[1])) =>
                /\ resp.outcome = "error"
                /\ resp.exc = "SignatureInvalidError"
    /\ cap.pc # "idle" => cap.req.edp_data_attachment = encoded(sealed[1])
    /\ (resp.endpoint = "decode" /\ resp.outcome = "ok") =>
            resp.input[1] = encoded(sealed[1])

C5_Witness ==
    /\ resp.endpoint = "decode"
    /\ resp.exc = "SignatureInvalidError"
    /\ resp.input = wire
    /\ wire[1] # encoded(sealed[1])
    /\ verify(sealed[1], provider) = "none"

C8_ReferencesResolveEarlier ==
    /\ sealed # <<>> => ReferencesEarlier(sealed[1].steps)
    /\ cap.pc # "idle" => ReferencesEarlier(AllSteps(cap.rec[1]))
    /\ resp.endpoint \in {"sign/edp", "sign/cap"} =>
            resp.exc # "DanglingReferenceError"

C8_Witness ==
    /\ cap.pc = "sign"
    /\ hops = 1
    /\ Len(AllSteps(cap.rec[1])) > 8
    /\ \E i \in 1..Len(cap.rec[1].added) :
            Cardinality(References(cap.rec[1].added[i])) = 3

GsDone == gs.pc \in {"returned", "raised"}

KmsConfigured == environ.KMS_KEY_ID = "set"

\* C2 as stated: the tiers are tried in the order remote signer, secret store,
\* local file, each at most once, stopping at the first that succeeds, whose
\* Signer is the one returned.
C2_TierOrder ==
    (GsDone /\ world.bundle = "ok") =>
        LET remote == IF KmsConfigured THEN <<"kms">> ELSE <<>>
            expected ==
                IF KmsConfigured /\ world.kms = "ok" THEN <<"kms">>
                ELSE IF world.ssm_has_key THEN remote \o <<"ssm">>
                ELSE remote \o <<"ssm", "file">>
        IN  /\ gs.tried = expected
            /\ gs.pc = "returned" => gs.source = gs.tried[Len(gs.tried)]

\* C3: with a remote key identifier configured, a failure constructing the
\* remote signer is logged as a warning and does not leave get_signer:
\* resolution goes on to the next tier, and whatever get_signer then raises is
\* that tier's error.
C3_RemoteFailureFallsThrough ==
    (/\ KmsConfigured
     /\ world.kms # "ok"
     /\ world.bundle = "ok"
     /\ gs.pc \in {"file", "returned", "raised"}) =>
        /\ gs.log = <<[level |-> "warning", error |-> world.kms]>>
        /\ gs.exc # world.kms
        /\ gs.pc = "file" => gs.tried = <<"kms">>
        /\ gs.pc # "file" => gs.tried = <<"kms", "file">>

C3_Witness ==
    /\ KmsConfigured
    /\ world.kms = "ClientError"
    /\ gs.pc = "returned"
    /\ gs.signer = "SignerInMemory"
    /\ Len(gs.log) = 1

\* C4 as stated: when no tier can locate key material (no remote signer, no
\* key in the secret store, none at the local path, the locator possibly not
\* configured) get_signer fails with KeyNotFoundError and nothing else.
C4_KeyNotFoundOnly ==
    (/\ GsDone
     /\ world.bundle = "ok"
     /\ ~(KmsConfigured /\ world.kms = "ok")
     /\ ~world.ssm_has_key
     /\ (environ.SIGNING_KEY = "unset" \/ world.key = "absent")) =>
        /\ gs.pc = "raised"
        /\ gs.exc = "KeyNotFoundError"
        /\ gs.signer = "none"

EngHits == {i \in 1..Len(AllSteps(eng.rec)) :
                StepMatches(eng.rec, i, eng.last.arg[1])}

\* C7: an append whose references include an id that is not the id of a step
\* already in the chain fails with DanglingReferenceError and leaves the
\* chain's steps as they were.
C7_DanglingRefused ==
    [][(/\ eng'.last.op = "add_step"
        /\ ~(References(eng'.last.arg[1]) \subseteq StepIds(AllSteps(eng.rec))))
        => (/\ eng'.last.err = "DanglingReferenceError"
            /\ eng'.rec = eng.rec)]_vars

C7_Witness ==
    /\ eng.last.op = "add_step"
    /\ eng.last.err = "DanglingReferenceError"
    /\ Len(AllSteps(eng.rec)) = 2
    /\ References(eng.last.arg[1]) \cap StepIds(AllSteps(eng.rec)) = {}

\* C9: find_step returns the lowest-index step matching every criterion, also
\* with several steps of the type in the chain, and fails with
\* StepNotFoundError exactly when no step matches.
C9_FirstMatch ==
    eng.last.op = "find_step" =>
        /\ eng.last.err = "StepNotFoundError" <=> EngHits = {}
        /\ EngHits # {} =>
            /\ eng.last.err = "none"
            /\ eng.last.out \in EngHits
            /\ \A j \in EngHits : eng.last.out <= j

C9_Witness ==
    /\ eng.last.op = "find_step"
    /\ Cardinality(EngHits) = 2
    /\ eng.last.out = 2
    /\ AllSteps(eng.rec)[1].type = eng.last.arg[1].type

LastEnvelope(rec) == rec.signatures[Len(rec.signatures)]

\* C11: each seal covers the entire steps sequence present at signing time,
\* the steps received from earlier hops included: the newest envelope of a
\* sealed chain is over all of its steps, and it no longer holds when any one
\* field of any step of an earlier hop is changed after that seal.
C11_SealCoversWholeChain ==
    sealed # <<>> =>
        /\ LastEnvelope(sealed[1]).upto = Len(sealed[1].steps)
        /\ LastEnvelope(sealed[1]).over =
                SignedContent(sealed[1].trust_framework, sealed[1].steps,
                              Len(sealed[1].steps))
        /\ (resp.endpoint = "sign/cap" /\ resp.outcome = "ok") =>
            /\ Len(sealed[1].signatures) = Len(resp.input[1].signatures) + 1
            /\ SubSeq(sealed[1].steps, 1, Len(resp.input[1].steps))
                    = resp.input[1].steps
        /\ Len(sealed[1].signatures) > 1 =>
            \A i \in 1..sealed[1].signatures[1].upto :
                \A k \in DOMAIN sealed[1].steps[i] :
                    LET altered == Reopened(TamperAt(encoded(sealed[1]), i, k))
                    IN  /\ ~EnvelopeValid(altered, LastEnvelope(altered))
                        /\ verify(altered, provider) = "SignatureInvalidError"

C11_Witness ==
    /\ sealed # <<>>
    /\ Len(sealed[1].signatures) = 2
    /\ sealed[1].signatures[1].upto = 3
    /\ Len(sealed[1].steps) = 8
    /\ resp.endpoint = "sign/cap"
    /\ resp.outcome = "ok"

\* C12 as stated: every re-open of an encoded artifact, in the receiving-party
\* workflow and in the decode endpoint, checks the embedded trust-framework id
\* against the re-opening party's own id and fails with TrustFrameworkMismatch
\* when they differ; the id of a chain is the same after a hop as before it.
C12_ReopenValidates ==
    /\ (/\ resp.endpoint \in {"sign/cap", "decode"}
        /\ resp.input[1]["ib1:provenance"] # TRUST_FRAMEWORK_URL) =>
            /\ resp.outcome = "error"
            /\ resp.exc = "TrustFrameworkMismatch"
    /\ (resp.endpoint = "sign/cap" /\ resp.outcome = "ok") =>
            resp.body[1]["ib1:provenance"] = resp.input[1]["ib1:provenance"]

ExpectedStatus ==
    [c \in ExcClasses |->
        CASE c \in {"ValueError", "UnicodeDecodeError", "FrameworkAuthError"}
                -> 400
          [] c = "ConfigurationError" -> 503
          [] OTHER -> 500]

\* C13: every exception raised by record assembly in sign/edp and sign/cap is
\* answered with exactly one HTTP error status fixed by the exception's class
\* alone: 400 for ValueError and FrameworkAuthError, 503 for
\* ConfigurationError, 500 for anything else; an assembly that returns is
\* answered 200 with the encoded record.
C13_StatusByClass ==
    \A i \in 1..Len(http) :
        /\ http[i].raised # <<>> =>
            /\ http[i].status_code = ExpectedStatus[http[i].raised[1].class]
            /\ http[i].body = <<>>
        /\ http[i].raised = <<>> =>
            /\ http[i].status_code = 200
            /\ http[i].body # <<>>
            /\ http[i].body[1]["ib1:provenance"] = TRUST_FRAMEWORK_URL
            /\ http[i].body[1].signatures # <<>>

C13_Witness ==
    /\ Len(http) = 2
    /\ http[1].status_code = 503
    /\ http[1].endpoint = "sign/edp"
    /\ http[2].status_code = 200
    /\ http[2].endpoint = "sign/cap"

\* C14: the detail returned to the caller carries the exception's message
\* only for client-input errors (the message, or a fixed fallback when it is
\* empty); for configuration and unclassified failures it is a fixed text that
\* depends on the endpoint's action only, never on the message.
C14_DetailNeverLeaks ==
    \A i \in 1..Len(http) : http[i].raised # <<>> =>
        LET x == http[i]
            exc == x.raised[1]
        IN  IF x.status_code = 400
            THEN x.detail =
                    IF exc.message # "" THEN <<exc.message>>
                    ELSE <<"Unable to ", x.action, " due to invalid input.">>
            ELSE /\ \A m \in ExcMessages \ {""} : m \notin SeqToSet(x.detail)
                 /\ \A j \in 1..Len(http) :
                        (/\ http[j].action = x.action
                         /\ http[j].status_code = x.status_code) =>
                            http[j].detail = x.detail

C14_Witness ==
    /\ Len(http) = 2
    /\ http[1].status_code = 500
    /\ http[2].status_code = 500
    /\ http[1].action = http[2].action
    /\ http[1].raised[1].message # http[2].raised[1].message
    /\ http[1].raised[1].message # ""
    /\ http[2].raised[1].message # ""

\* C15 as stated: every structural or cryptographic failure raised while
\* serving sign/edp, sign/cap or decode reaches the caller through the
\* boundary error mapping; none leaves an endpoint unmapped.
C15_AllFailuresMapped ==
    resp.outcome = "error" => resp.via = "HTTPException"

Served == resp # NoResponse \/ cap # CapIdle \/ wire # <<>>

\* C16: the Signer and the CertificateProvider are each constructed exactly
\* once, by lifespan and before any request is served; every request is served
\* with those instances, and no request handler replaces or re-resolves them.
C16_ConstructedOnce ==
    [][/\ boot.pc = "serving" =>
            /\ signer' = signer
            /\ provider' = provider
            /\ boot' = boot
       /\ boot'.pc = "serving" =>
            /\ boot'.made = [provider |-> 1, signer |-> 1]
            /\ signer' # NoSigner
            /\ provider' # NoProvider
       /\ boot'.pc # "serving" => ~Served'
       /\ (resp' # resp /\ resp'.outcome = "ok"
                /\ resp'.endpoint \in {"sign/edp", "sign/cap"}) =>
            /\ LastEnvelope(resp'.body[1]).member = signer.member
            /\ LastEnvelope(resp'.body[1]).root = signer.root]_vars

C16_Witness ==
    /\ boot.pc = "serving"
    /\ environ.KMS_KEY_ID = "set"
    /\ gs.signer = "SignerInMemory"
    /\ hops = 1
    /\ resp.endpoint = "decode"
    /\ resp.outcome = "ok"

\* C18 as stated: when a required locator (root CA certificate, signing
\* bundle, signing key) is missing or cannot be read at process start,
\* startup fails with ConfigurationError before any request is served.
C18_StartupConfigurationError ==
    (/\ boot.pc \in {"failed", "serving"}
     /\ \/ environ.ROOT_CA_CERTIFICATE = "unset"
        \/ environ.SIGNING_BUNDLE = "unset"
        \/ environ.SIGNING_KEY = "unset"
        \/ world.root = "unreadable"
        \/ world.bundle = "unreadable"
        \/ world.key = "absent") =>
            /\ boot.pc = "failed"
            /\ boot.exc = "ConfigurationError"
            /\ ~Served

IdsOf(steps) == [i \in 1..Len(steps) |-> steps[i].id]

DistinctIds(steps) ==
    \A i, j \in 1..Len(steps) : i # j => steps[i].id # steps[j].id

\* C17: in every chain the workflows reach, over any number of hops, step ids
\* are pairwise distinct, and the id of a step already in the chain is the
\* same after every later append, seal and re-open.
C17_IdsUniqueAndStable ==
    [][/\ sealed' # <<>> => DistinctIds(sealed'[1].steps)
       /\ cap'.pc # "idle" => DistinctIds(AllSteps(cap'.rec[1]))
       /\ (cap.pc = "idle" /\ cap'.pc # "idle") =>
            IdsOf(AllSteps(cap'.rec[1])) = IdsOf(sealed[1].steps)
       /\ (cap.pc # "idle" /\ cap'.pc # "idle") =>
            SubSeq(IdsOf(AllSteps(cap'.rec[1])), 1, Len(AllSteps(cap.rec[1])))
                = IdsOf(AllSteps(cap.rec[1]))
       /\ (cap.pc = "sign" /\ cap'.pc = "idle") =>
            IdsOf(sealed'[1].steps) = IdsOf(AllSteps(cap.rec[1]))]_vars

C17_Witness ==
    /\ hops = 2
    /\ sealed # <<>>
    /\ Len(sealed[1].steps) = 13
    /\ Len(sealed[1].signatures) = 3

\* C19 as stated: loading a certificate bundle fails with
\* CertificateNotFoundError when the locator cannot be read and with
\* CertificateParseError when the bytes read are not a certificate sequence,
\* for an object-storage locator and a local path alike, and with no other
\* error in these two cases.
C19_CertificateErrors ==
    (gs.pc = "raised" /\ gs.tried = <<>>) =>
        /\ world.bundle = "unreadable" => gs.exc = "CertificateNotFoundError"
        /\ world.bundle = "garbage" => gs.exc = "CertificateParseError"

\* the steps request r has appended when it is at pc
EdpDoneAt(pc) ==
    CASE pc = "permission" -> 0
      [] pc = "origin" -> 1
      [] pc = "transfer" -> 2
      [] OTHER -> 3

CapDoneAt(pc) ==
    CASE pc \in {"find", "receipt"} -> 0
      [] pc = "permission" -> 1
      [] pc = "origin" -> 2
      [] pc = "process" -> 3
      [] pc = "transfer" -> 4
      [] OTHER -> 5

\* C20: under any interleaving of sign/edp and sign/cap requests served at
\* once, each request builds and seals its own chain: at every point its chain
\* holds exactly the steps it would hold had the request run alone, and the
\* artifact it returns is the one it would return alone.
C20_RequestsIsolated ==
    /\ \A r \in Slots : edp[r].pc # "idle" =>
            LET alone == create_edp_provenance_record(signer, edp[r].req[1])
            IN  /\ edp[r].exc = "none"
                /\ AllSteps(EdpRecord(r)) =
                        SubSeq(alone.signed[1].steps, 1, EdpDoneAt(edp[r].pc))
                /\ edp[r].pc = "done" => edp[r].out = alone.artifact
    /\ cap.pc # "idle" =>
            LET alone == create_cap_provenance_record(signer, provider, cap.req)
                received == Len(cap.req.edp_data_attachment.steps)
            IN  /\ cap.pc # "find" => alone.err = "none"
                /\ alone.err = "none" =>
                        AllSteps(cap.rec[1]) =
                            SubSeq(alone.signed[1].steps, 1,
                                   received + CapDoneAt(cap.pc))
    /\ (resp.endpoint = "sign/cap" /\ resp.outcome = "ok") =>
            \E params \in ConcurrentCapParameters :
                resp.body = create_cap_provenance_record(signer, provider,
                    [edp_data_attachment |-> resp.input[1]] @@ params).artifact

C20_Witness ==
    /\ \A r \in Slots : edp[r].pc = "done" /\ edp[r].out # <<>>
    /\ edp[1].out # edp[2].out
    /\ resp.endpoint = "sign/cap"
    /\ resp.outcome = "ok"

\* ------------------------------------------------- a body at the models
\* the body is validated by the request model of its endpoint
Validate ==
    /\ val.pc = "received"
    /\ val' = [val EXCEPT !.pc = "validated",
                          !.outcome =
                              IF val.endpoint = "sign/edp"
                              THEN EdpProvenanceRecordRequest(val.payload)
                              ELSE CapProvenanceRecordRequest(val.payload)]
    /\ UNCHANGED <<wfVars, gsVars, eng, http, boot, edp>>

\* the endpoint of an accepted body builds the permission step of its record
BuildPermission ==
    /\ val.pc = "validated"
    /\ val.outcome = "accepted"
    /\ val' = [val EXCEPT !.pc = "built",
                          !.step =
                              IF val.endpoint = "sign/edp"
                              THEN <<EdpPermissionStep(val.payload)>>
                              ELSE <<CapPermissionStep(val.payload)>>]
    /\ UNCHANGED <<wfVars, gsVars, eng, http, boot, edp>>

RequestsInit ==
    /\ WfParked /\ GsParked /\ eng = EngStart
    /\ http = <<>> /\ boot = BootServing /\ edp = EdpNoneInFlight
    /\ \/ \E payload \in EdpPayloads :
            val = [pc |-> "received", endpoint |-> "sign/edp",
                   payload |-> payload, outcome |-> "none", step |-> <<>>]
       \/ \E payload \in CapPayloads :
            val = [pc |-> "received", endpoint |-> "sign/cap",
                   payload |-> payload, outcome |-> "none", step |-> <<>>]

RequestsNext == Validate \/ BuildPermission

SpecRequests == RequestsInit /\ [][RequestsNext]_vars

SatisfiesSchema(step) == RequiredFields(step.type) \subseteq DOMAIN step

\* C21 as stated: every step payload the originating-party and the
\* receiving-party workflow append carries every required field of the schema
\* of its declared type, under the schema's field name.
C21_StepsSatisfySchema ==
    /\ sealed # <<>> =>
            \A i \in 1..Len(sealed[1].steps) : SatisfiesSchema(sealed[1].steps[i])
    /\ cap.pc # "idle" =>
            \A i \in 1..Len(cap.rec[1].added) :
                SatisfiesSchema(cap.rec[1].added[i])

\* the interval of a body: its start and its end, per endpoint
DataInterval(v) == <<v.payload.from_date, v.payload.to_date>>
PermissionInterval(v) ==
    IF v.endpoint = "sign/edp"
    THEN <<v.payload.permission_granted, v.payload.permission_expires>>
    ELSE <<v.payload.cap_permission_granted, v.payload.cap_permission_expires>>

\* the end is a later instant than the start: on a later day, or on the same
\* day with the same offset convention and a later fraction of the second
StrictlyAfter(i) ==
    \/ i[2].day > i[1].day
    \/ i[2].day = i[1].day /\ i[2].aware = i[1].aware
                           /\ i[2].micro /\ ~i[1].micro

\* the end is the start or an earlier instant
NotAfter(i) ==
    \/ i[2].day < i[1].day
    \/ i[2].day = i[1].day /\ i[2].aware = i[1].aware
                           /\ (i[2].micro => i[1].micro)

\* C22 as stated: both request models reject every body in which the data
\* interval or the permission interval does not end strictly after it starts,
\* and a body whose two intervals are strictly increasing is accepted.
C22_IntervalsChecked ==
    val.pc \in {"validated", "built"} =>
        /\ (NotAfter(DataInterval(val)) \/ NotAfter(PermissionInterval(val)))
                => val.outcome # "accepted"
        /\ (StrictlyAfter(DataInterval(val))
                /\ StrictlyAfter(PermissionInterval(val)))
                => val.outcome = "accepted"

\* the ISO timestamp at seconds precision, ending in Z, of the instant dt
SecondsZ(dt) == DayChars(dt.day) \o <<"T">> \o TimeChars \o <<"Z">>

\* C24 as stated: for every grant and expiry datetime the request models
\* accept, with or without fractional seconds and with or without a UTC
\* offset, the timestamp and expires fields of the permission step are the
\* seconds-precision ISO timestamps ending in Z of the requested instants.
C24_PermissionTimestamps ==
    val.pc = "built" =>
        /\ val.step[1].timestamp = SecondsZ(PermissionInterval(val)[1])
        /\ val.step[1].expires = SecondsZ(PermissionInterval(val)[2])

CapTail == <<"receipt", "permission", "origin", "process", "transfer">>

\* C23: assembly only appends at the tail.  The chain the originating party
\* seals is exactly [permission, origin, transfer]; at every point of the
\* receiving party's assembly the received steps are the unchanged head of
\* the chain and the steps appended so far are the first of [receipt,
\* permission, origin, process, transfer], in that order; the chain it seals
\* is the received steps followed by exactly those five.
C23_AppendOnly ==
    /\ (resp.endpoint = "sign/edp" /\ resp.outcome = "ok") =>
            StepTypes(resp.body[1].steps) = <<"permission", "origin", "transfer">>
    /\ cap.pc # "idle" =>
            LET received == cap.req.edp_data_attachment.steps
                chain == AllSteps(cap.rec[1])
            IN  /\ Len(chain) >= Len(received)
                /\ SubSeq(chain, 1, Len(received)) = received
                /\ Len(chain) - Len(received) <= Len(CapTail)
                /\ StepTypes(SubSeq(chain, Len(received) + 1, Len(chain)))
                        = SubSeq(CapTail, 1, Len(chain) - Len(received))
    /\ (resp.endpoint = "sign/cap" /\ resp.outcome = "ok") =>
            LET received == resp.input[1].steps
                chain == resp.body[1].steps
            IN  /\ Len(chain) = Len(received) + Len(CapTail)
                /\ SubSeq(chain, 1, Len(received)) = received
                /\ StepTypes(SubSeq(chain, Len(received) + 1, Len(chain)))
                        = CapTail

\* the second receiving-party hop has sealed: eight received steps, five new
C23_Witness ==
    /\ hops = 2
    /\ resp.endpoint = "sign/cap"
    /\ resp.outcome = "ok"
    /\ Len(resp.input[1].steps) = 8
    /\ Len(resp.body[1].steps) = 13

\* the transfer step of the originating party in the received chain
EdpTransferOf(c) == c.req.edp_data_attachment.steps[3]

\* the sign/cap request being served carries the recipient member, service
\* URL, from_date and to_date of the sign/edp request that made the chain
SameAsEdpRequest(c) ==
    /\ Len(c.req.edp_data_attachment.steps) >= 3
    /\ \E req \in EdpRequests :
        /\ EdpTransferOf(c) = ("id" :> 3) @@ EdpTransferStep(req, 2, 1)
        /\ c.req.cap_member_id = req.cap_member
        /\ c.req.edp_service_url = req.service_url
        /\ c.req.from_date = req.from_date
        /\ c.req.to_date = req.to_date

\* the signature part of the criteria holds of the seal over the steps of
\* the originating party
SealMatchesCriteria(c) ==
    LET e == c.req.edp_data_attachment.signatures[1]
        sig == search_criteria(c.req)["_signature"].signed
    IN  e.member = sig.member /\ e.roles = sig.roles

DecodeRecord(artifact) == OpenRecord(artifact["ib1:provenance"], artifact).rec

\* C26: the decode endpoint returns decoded content only for an artifact on
\* which verify succeeded, and then the decoded content of that very
\* artifact; for an artifact whose verification fails the request ends with
\* verify's error and no decoded content.
C26_DecodeOnlyVerified ==
    resp.endpoint = "decode" =>
        LET rec == DecodeRecord(resp.input[1]) IN
        /\ resp.body # <<>> =>
                /\ verify(rec, provider) = "none"
                /\ resp.outcome = "ok"
                /\ resp.body[1] = decoded(rec)
        /\ verify(rec, provider) # "none" =>
                /\ resp.body = <<>>
                /\ resp.outcome = "error"
                /\ resp.exc = verify(rec, provider)

\* decode was posted an artifact sealed under a certificate chain that does
\* not lead to the trust anchor, and returned nothing
C26_Witness ==
    /\ resp.endpoint = "decode"
    /\ verify(DecodeRecord(resp.input[1]), provider) = "TrustChainError"
    /\ resp.body = <<>>

====
